---- MODULE Spec2Model ----
(***************************************************************************)
(* Model of the "Knowledge spillovers" indicator (class Giants,            *)
(* src/indicators.py) as it is driven by the brix handler of src/main.py.  *)
(*                                                                         *)
(* Numbers.  The program computes with floats; the model computes with     *)
(* fixed-point integers in thousandths (8.0 is 8000).  Parameters that are *)
(* fractions in the source are held in thousandths too (gamma = 0.004 is   *)
(* 4, beta1 = 0.06 is 60, the alphas 0.5 and 0.9 are 500 and 900).         *)
(* Coordinates and distances are in centimetres of the local CRS.          *)
(*                                                                         *)
(* Optional values.  A Python attribute that is None or a value is the     *)
(* empty sequence (None) or a one-element sequence (Some(v)).              *)
(***************************************************************************)
EXTENDS Integers, Sequences, FiniteSets, TLC

VARIABLES
    color_method,     \* self.color_method, fixed by setup
    dis,              \* self.dis: None or Some(sequence of distance rows)
    academic_color,   \* self.academic_color: None or Some(<<r, g, b>>)
    breaks,           \* self.breaks: None or Some(sequence of thresholds)
    geogrid_in,       \* the geogrid_data handed to the last pass, as received
    geogrid_data,     \* the geogrid_data returned by the last pass
    exposure,         \* local 'exp' of the last propagate_spillovers (after the clamp)
    final_height_lookup, \* local 'final_height_lookup' of the last pass
    had_breaks,       \* whether self.breaks was set when the last pass began
    raised            \* whether the last pass ended in an exception

vars == <<color_method, dis, academic_color, breaks, geogrid_in, geogrid_data,
          exposure, final_height_lookup, had_breaks, raised>>

----------------------------------------------------------------------------
(* Bounds of the model *)

\* largest number of cells of a grid in the mixed-type specification
MaxCells == 3
\* number of cells of a grid in the specification of the colour methods
MethodCells == 6
\* number of cells of a grid in the dense specification
DenseCells == 8
\* number of columns of the lattice the cells are laid out on
GridCols == 2

----------------------------------------------------------------------------
(* Generic helpers *)

None == <<>>
Some(v) == <<v>>
Val(o) == o[1]

Min2(a, b) == IF a <= b THEN a ELSE b

RECURSIVE SumSeq(_)
SumSeq(s) == IF s = <<>> THEN 0 ELSE Head(s) + SumSeq(Tail(s))

\* thousandths
Unit == 10 * 100

Fix(n) == n * Unit

\* Python list subscript: a negative subscript counts from the end
PyIndex(list, i) == IF i < 0 THEN list[Len(list) + i + 1] ELSE list[i + 1]

----------------------------------------------------------------------------
(* Parameters set by setup *)

gamma == 4
beta0 == 0
beta1 == 60
scale == 2
background_alpha == 500
units_alpha == 900
base_height == 8
n_colors == 3

academic_types == {"Academic"}
private_types == {"Private R&D"}

Methods == {"jenks", "quantile", "none"}

\* self.Reds[self.n_colors] for the palette sizes the source lists
Reds(n) ==
    CASE n = 3 -> << <<254,224,210>>, <<252,146,114>>, <<222,45,38>> >>
      [] n = 4 -> << <<254,229,217>>, <<252,174,145>>, <<251,106,74>>, <<203,24,29>> >>
      [] n = 5 -> << <<254,229,217>>, <<252,174,145>>, <<251,106,74>>, <<222,45,38>>,
                     <<165,15,21>> >>

color_palette == Reds(n_colors)

----------------------------------------------------------------------------
(* Float functions, in fixed point *)

\* sum of the Taylor series of exp at x >= 0, term by term until a term is 0
RECURSIVE ExpSeries(_, _, _, _)
ExpSeries(x, term, k, acc) ==
    IF term = 0 THEN acc
    ELSE ExpSeries(x, (term * x) \div (k * Unit), k + 1, acc + term)

\* np.exp
np_exp(x) ==
    IF x >= 0 THEN ExpSeries(x, Unit, 1, 0)
    ELSE (Unit * Unit) \div ExpSeries(-x, Unit, 1, 0)

\* integer square root by bisection
RECURSIVE SqrtSearch(_, _, _)
SqrtSearch(s, lo, hi) ==
    IF lo >= hi THEN lo
    ELSE LET mid == (lo + hi + 1) \div 2
         IN IF mid * mid <= s THEN SqrtSearch(s, mid, hi)
            ELSE SqrtSearch(s, lo, mid - 1)

\* shapely Point.distance: planar Euclidean distance of two points
distance(p, q) ==
    LET dx == p[1] - q[1]
        dy == p[2] - q[2]
    IN SqrtSearch(dx * dx + dy * dy, 0, 46340)

----------------------------------------------------------------------------
(* The geogrid_data object the handler passes in *)

\* geogrid_data.get_geogrid_props()['types']['Academic']['color'] without the
\* '#': six hexadecimal digits, here 1F78B4
AcademicHex == <<1, 15, 7, 8, 11, 4>>

\* the colour a cell of the given type arrives with
TypeColor(name) ==
    CASE name = "Academic"    -> <<31, 120, 180, 255>>
      [] name = "Private R&D" -> <<51, 160, 44, 255>>
      [] OTHER                -> <<0, 0, 0, 255>>

\* projected centroid of cell i on a lattice of GridCols columns
Centroid(i, size) ==
    <<((i - 1) % GridCols) * size, ((i - 1) \div GridCols) * size>>

\* a grid of n cells with ids 1..n, cell i of type names[i], every cell
\* arriving with height h, on a lattice whose cells are 'size' apart
GridOf(n, size, names, h) ==
    [i \in 1..n |-> [id |-> i, name |-> names[i], height |-> h,
                     color |-> TypeColor(names[i]),
                     geometry |-> Centroid(i, size)]]

----------------------------------------------------------------------------
(* Giants.set_academic_color *)

set_academic_color(current) ==
    IF current = None
    THEN Some([k \in 1..3 |-> 16 * AcademicHex[2 * k - 1] + AcademicHex[2 * k]])
    ELSE current

----------------------------------------------------------------------------
(* Giants.make_dis_df *)

\* pd.merge(dis, dis, on='flag'): every row paired with every row
CrossMerge(cells) ==
    LET n == Len(cells)
    IN [k \in 1..(n * n) |->
          [id_x |-> cells[((k - 1) \div n) + 1].id,
           geometry_x |-> cells[((k - 1) \div n) + 1].geometry,
           id_y |-> cells[((k - 1) % n) + 1].id,
           geometry_y |-> cells[((k - 1) % n) + 1].geometry]]

\* only one row of every pair kept
DropSelfPairs_half(rows) == SelectSeq(rows, LAMBDA r : r.id_x < r.id_y)

\* dis[dis['id_x'] != dis['id_y']]
DropSelfPairs(rows) == SelectSeq(rows, LAMBDA r : r.id_x # r.id_y)

make_dis_df(cells) ==
    LET rows == DropSelfPairs(CrossMerge(cells))
    IN [k \in 1..Len(rows) |->
          [id_x |-> rows[k].id_x, id_y |-> rows[k].id_y,
           distance |-> distance(rows[k].geometry_x, rows[k].geometry_y)]]

----------------------------------------------------------------------------
(* Giants.propagate_spillovers *)

\* only the academic cells set to base_height
ResetHeights_academic_only(cells) ==
    [i \in 1..Len(cells) |->
        IF cells[i].name \in academic_types
        THEN [cells[i] EXCEPT !.height = Fix(base_height)]
        ELSE cells[i]]

\* line 124: cells of either role are set to base_height
ResetHeights(cells) ==
    [i \in 1..Len(cells) |->
        IF cells[i].name \in (academic_types \cup private_types)
        THEN [cells[i] EXCEPT !.height = Fix(base_height)]
        ELSE cells[i]]

\* line 129: inner join of the distance rows with the private cells on id_y
MergePatents(d, private) ==
    LET ids == {private[i].id : i \in 1..Len(private)}
        patents(y) == (CHOOSE i \in 1..Len(private) : private[i].id = y)
        kept == SelectSeq(d, LAMBDA r : r.id_y \in ids)
    IN [k \in 1..Len(kept) |->
          [id_x |-> kept[k].id_x, id_y |-> kept[k].id_y,
           distance |-> kept[k].distance,
           patents |-> private[patents(kept[k].id_y)].height]]

\* line 130: np.exp(-gamma*distance)*patents
Decayed(row) ==
    (np_exp(-((gamma * row.distance) \div 100)) * row.patents) \div Unit

\* line 131: groupby('id_x').sum()
GroupSum(rows) ==
    [x \in {rows[k].id_x : k \in 1..Len(rows)} |->
        LET mine == SelectSeq(rows, LAMBDA r : r.id_x = x)
        IN SumSeq([k \in 1..Len(mine) |-> Decayed(mine[k])])]

\* the exposure left as summed
ClampExposure_off(e) == e

\* line 132: exp.loc[exp['exp']>50,'exp'] = 50
ClampExposure(e) == IF e > Fix(50) THEN Fix(50) ELSE e

\* lines 123-132: the exposure of every cell that has a pair with a private cell
Exposure(d, cells) ==
    LET df == ResetHeights(cells)
        private == SelectSeq(df, LAMBDA c : c.name \in private_types)
        raw == GroupSum(MergePatents(d, private))
    IN [x \in DOMAIN raw |-> ClampExposure(raw[x])]

\* line 135: height*np.exp(beta0+beta1*exp)
Final(height, e) == (height * np_exp(beta0 + (beta1 * e) \div Unit)) \div Unit

\* the academic cells left-joined with the exposures, a missing exposure
\* counting as 0
propagate_spillovers_left(d, cells) ==
    LET df == ResetHeights(cells)
        academic == SelectSeq(df, LAMBDA c : c.name \in academic_types)
        exp == Exposure(d, cells)
    IN [x \in {academic[i].id : i \in 1..Len(academic)} |->
          LET c == academic[CHOOSE i \in 1..Len(academic) : academic[i].id = x]
          IN Final(c.height, IF x \in DOMAIN exp THEN exp[x] ELSE 0)]

\* lines 134-137: inner join of the academic cells with the exposures on id
propagate_spillovers(d, cells) ==
    LET df == ResetHeights(cells)
        academic == SelectSeq(df, LAMBDA c : c.name \in academic_types)
        exp == Exposure(d, cells)
        merged == SelectSeq(academic, LAMBDA c : c.id \in DOMAIN exp)
    IN [x \in {merged[i].id : i \in 1..Len(merged)} |->
          LET c == merged[CHOOSE i \in 1..Len(merged) : merged[i].id = x]
          IN Final(c.height, exp[x])]

----------------------------------------------------------------------------
(* Giants.set_breaks *)

\* list(final_height_lookup.values()), in ascending order
RECURSIVE KeysInOrder(_)
KeysInOrder(S) ==
    IF S = {} THEN <<>>
    ELSE LET k == CHOOSE x \in S : \A y \in S : x <= y
         IN <<k>> \o KeysInOrder(S \ {k})

\* the values in the order of their keys, unsorted
SortedValues_unsorted(lookup) ==
    LET ks == KeysInOrder(DOMAIN lookup)
    IN [i \in 1..Len(ks) |-> lookup[ks[i]]]

SortedValues(lookup) ==
    LET ks == KeysInOrder(DOMAIN lookup)
    IN SortSeq([i \in 1..Len(ks) |-> lookup[ks[i]]], LAMBDA a, b : a < b)

\* np.quantile(values, i/n) for the i-th point of np.linspace(0,1,n+1), with
\* numpy's linear interpolation between the two nearest order statistics
Quantile(v, i, n) ==
    LET pos == i * (Len(v) - 1)
        lo == pos \div n
        rem == pos % n
    IN IF rem = 0 THEN v[lo + 1]
       ELSE v[lo + 1] + ((v[lo + 2] - v[lo + 1]) * rem) \div n

QuantileBreaks(lookup) ==
    LET v == SortedValues(lookup)
    IN [i \in 1..(n_colors + 1) |-> Quantile(v, i - 1, n_colors)]

\* sum of squared deviations from the mean of v[from..to], on tenths
ClassSSD(v, from, to) ==
    LET w == [i \in 1..(to - from + 1) |-> v[from + i - 1] \div 100]
        s1 == SumSeq(w)
        s2 == SumSeq([i \in 1..Len(w) |-> w[i] * w[i]])
    IN s2 - (s1 * s1) \div Len(w)

\* the cut positions of a partition, ascending
CutSeq(S) == KeysInOrder(S)

\* total within-class sum of squares of the partition of v cut after the
\* positions of S
PartitionCost(v, S) ==
    LET c == CutSeq(S)
        from(j) == IF j = 1 THEN 1 ELSE c[j - 1] + 1
        to(j) == IF j = Len(c) + 1 THEN Len(v) ELSE c[j]
    IN SumSeq([j \in 1..(Len(c) + 1) |-> ClassSSD(v, from(j), to(j))])

RECURSIVE CutKey(_, _)
CutKey(S, m) ==
    IF S = {} THEN 0
    ELSE LET top == CHOOSE x \in S : \A y \in S : y <= x
         IN top + m * CutKey(S \ {top}, m)

\* jenkspy.jenks_breaks(values, nb_class): the lowest value, the upper bound
\* of every class but the last of the partition into nb_class contiguous
\* classes of least within-class sum of squares, and the highest value.
\* Among partitions of equal cost the one with the lowest cuts is taken.
jenks_breaks(v, nb_class) ==
    LET cuts == {S \in SUBSET (1..(Len(v) - 1)) : Cardinality(S) = nb_class - 1}
        before(S, T) ==
            \/ PartitionCost(v, S) < PartitionCost(v, T)
            \/ /\ PartitionCost(v, S) = PartitionCost(v, T)
               /\ CutKey(S, Len(v)) <= CutKey(T, Len(v))
        best == CutSeq(CHOOSE S \in cuts : \A T \in cuts : before(S, T))
    IN <<v[1]>> \o [j \in 1..Len(best) |-> v[best[j]]] \o <<v[Len(v)]>>

\* jenkspy refuses a number of classes that is not smaller than the number
\* of values (ValueError)
JenksRaises(lookup) ==
    n_colors >= Cardinality(DOMAIN lookup) \/ n_colors < 2

\* whether set_breaks ends in an exception
SetBreaksRaises(lookup, method) ==
    /\ Cardinality(DOMAIN lookup) > 0
    /\ method = "jenks"
    /\ JenksRaises(lookup)

\* any method but 'jenks' taken for 'quantile'
set_breaks_else_quantile(lookup, method) ==
    IF Cardinality(DOMAIN lookup) > 0
    THEN CASE method = "jenks" -> Some(jenks_breaks(SortedValues(lookup), n_colors))
           [] OTHER -> Some(QuantileBreaks(lookup))
    ELSE None

\* the value of self.breaks after set_breaks returns
set_breaks(lookup, method) ==
    IF Cardinality(DOMAIN lookup) > 0
    THEN CASE method = "jenks" -> Some(jenks_breaks(SortedValues(lookup), n_colors))
           [] method = "quantile" -> Some(QuantileBreaks(lookup))
           [] OTHER -> None
    ELSE None

----------------------------------------------------------------------------
(* Giants.get_color *)

\* np.where(self.breaks>=h): the (0-based) positions of the breaks >= h
WhereGeq(b, h) == {i - 1 : i \in {j \in 1..Len(b) : b[j] >= h}}

\* min() of an empty sequence raises ValueError
GetColorRaises(b, h) == b # None /\ WhereGeq(Val(b), h) = {}

\* cat of line 160
Cat(b, h) == CHOOSE c \in WhereGeq(b, h) : \A o \in WhereGeq(b, h) : c <= o

\* the subscript get_color applies to self.color_palette
PaletteSubscript(b, h) == Cat(b, h) - 1

get_color(b, ac, h) ==
    IF b # None THEN PyIndex(color_palette, PaletteSubscript(Val(b), h))
    ELSE Val(ac)

----------------------------------------------------------------------------
(* Giants.return_indicator *)

\* int(alpha*255)
AlphaByte(alpha) == (alpha * 255) \div Unit

\* the cap taken with max instead of min
ReportedHeight_max(h) == scale * (IF h >= Fix(1000) THEN h ELSE Fix(1000))

\* line 100: self.scale*min([1000,h])
ReportedHeight(h) == scale * Min2(Fix(1000), h)

\* the default height written without the scale
CellHeight_unscaled(c, lookup) ==
    IF c.id \in DOMAIN lookup THEN ReportedHeight(lookup[c.id])
    ELSE IF c.name = "Default" THEN 0
    ELSE Fix(base_height)

\* lines 98-105: the height written on a cell
CellHeight(c, lookup) ==
    IF c.id \in DOMAIN lookup THEN ReportedHeight(lookup[c.id])
    ELSE IF c.name = "Default" THEN 0
    ELSE scale * Fix(base_height)

\* lines 98-110: the colour written on a cell
CellColor(c, lookup, b, ac) ==
    LET col == IF c.id \in DOMAIN lookup THEN get_color(b, ac, lookup[c.id])
               ELSE c.color
        alpha == IF c.name = "Default" THEN background_alpha ELSE units_alpha
    IN SubSeq(col, 1, Min2(3, Len(col))) \o <<AlphaByte(alpha)>>

\* lines 97-112: one turn of the loop; the cell loses its geometry
UpdateCell(c, lookup, b, ac) ==
    [id |-> c.id, name |-> c.name, height |-> CellHeight(c, lookup),
     color |-> CellColor(c, lookup, b, ac)]

\* the cells after the loop; a cell whose get_color raises has its height
\* written already, and the cells after it are not reached
UpdateCells(cells, lookup, b, ac) ==
    LET fails(i) == cells[i].id \in DOMAIN lookup
                    /\ GetColorRaises(b, lookup[cells[i].id])
        stop == IF \E i \in 1..Len(cells) : fails(i)
                THEN CHOOSE i \in 1..Len(cells) :
                        fails(i) /\ \A j \in 1..(i - 1) : ~fails(j)
                ELSE Len(cells) + 1
    IN [i \in 1..Len(cells) |->
          IF i < stop THEN UpdateCell(cells[i], lookup, b, ac)
          ELSE IF i = stop
               THEN [cells[i] EXCEPT !.height = CellHeight(cells[i], lookup)]
               ELSE cells[i]]

LoopRaises(cells, lookup, b) ==
    \E i \in 1..Len(cells) :
        cells[i].id \in DOMAIN lookup /\ GetColorRaises(b, lookup[cells[i].id])

\* lines 91-112 as a function of what the pass reads: self.dis,
\* self.academic_color, the grid and self.color_method.  'breaks' is the
\* value set_breaks assigns, when it returns.
Pass(d0, ac0, g, method) ==
    LET d == IF d0 = None THEN Some(make_dis_df(g)) ELSE d0
        ac == set_academic_color(ac0)
        lookup == propagate_spillovers(Val(d), g)
        stops == SetBreaksRaises(lookup, method)
        b == IF stops THEN None ELSE set_breaks(lookup, method)
    IN [dis |-> d,
        academic_color |-> ac,
        exposure |-> Exposure(Val(d), g),
        lookup |-> lookup,
        set_breaks_raises |-> stops,
        breaks |-> b,
        cells |-> IF stops THEN g ELSE UpdateCells(g, lookup, b, ac),
        loop_raises |-> ~stops /\ LoopRaises(g, lookup, b)]

----------------------------------------------------------------------------
(* Grids the handler passes in *)

Names == {"Academic", "Private R&D", "Default"}
CellSizes == {1000, 2000}
HeightsIn == {Fix(8), Fix(20)}

\* grids of up to MaxCells cells of any type
MixedGrids ==
    UNION {{GridOf(n, size, names, h) :
                size \in CellSizes, names \in [1..n -> Names], h \in HeightsIn} :
           n \in 1..MaxCells}

\* grids of n cells, ten metres apart, each academic or private
TwoRoleGrids(n) ==
    {GridOf(n, 1000, names, Fix(base_height)) :
        names \in [1..n -> academic_types \cup private_types]}

MethodGrids == TwoRoleGrids(MethodCells)

DenseGrids == TwoRoleGrids(DenseCells)

----------------------------------------------------------------------------
(* The pass, evaluated once for every input it can meet *)

\* a number that tells most grids apart: the types of the cells, as the
\* digits of a number in base 3
NameDigit(name) ==
    CASE name \in academic_types -> 0
      [] name \in private_types -> 1
      [] OTHER -> 2

GridCode(g) == SumSeq([i \in 1..Len(g) |-> NameDigit(g[i].name) * 3 ^ (i - 1)])

\* the inputs a pass can meet on a family of grids: before the first pass
\* nothing is cached, later the distances of some grid of the family are
PassInputs(grids, methods) ==
    LET first == {<<None, None>>}
        later == {<<set_academic_color(None), Some(make_dis_df(g))>> : g \in grids}
    IN {[method |-> m, code |-> GridCode(g), grid |-> g,
         academic_color |-> s[1], dis |-> s[2]] :
            s \in first \cup later, g \in grids, m \in methods}

\* Pass, tabulated by method, then by GridCode, then by the exact input
PassTable ==
    LET inputs == PassInputs(MixedGrids, {"quantile"})
                    \cup PassInputs(MethodGrids, Methods)
                    \cup PassInputs(DenseGrids, {"quantile"})
    IN [m \in Methods |->
         [c \in {k.code : k \in {i \in inputs : i.method = m}} |->
           [k \in {<<i.grid, i.academic_color, i.dis>> :
                      i \in {j \in inputs : j.method = m /\ j.code = c}}
              |-> Pass(k[3], k[2], k[1], m)]]]

\* one pass of return_indicator on the grid g: r is
\* Pass(dis, academic_color, g, color_method), read from the table; when
\* set_breaks raises, self.breaks keeps the value it had
ReturnIndicator(g) ==
    \E r \in {PassTable[color_method][GridCode(g)][<<g, academic_color, dis>>]} :
       /\ dis' = r.dis
       /\ academic_color' = r.academic_color
       /\ exposure' = r.exposure
       /\ final_height_lookup' = r.lookup
       /\ geogrid_in' = Some(g)
       /\ had_breaks' = (breaks # None)
       /\ breaks' = IF r.set_breaks_raises THEN breaks ELSE r.breaks
       /\ raised' = (r.set_breaks_raises \/ r.loop_raises)
       /\ geogrid_data' = Some(r.cells)
       /\ UNCHANGED color_method

----------------------------------------------------------------------------
(* Specifications *)

\* the state setup leaves, before the first pass
Setup(method) ==
    /\ color_method = method
    /\ dis = None
    /\ academic_color = None
    /\ breaks = None
    /\ geogrid_in = None
    /\ geogrid_data = None
    /\ exposure = <<>>
    /\ final_height_lookup = <<>>
    /\ had_breaks = FALSE
    /\ raised = FALSE

\* src/main.py: Giants(quietly=False,color_method='quantile') on grids of
\* mixed types
Init == Setup("quantile")

Next == \E g \in MixedGrids : ReturnIndicator(g)

Spec == Init /\ [][Next]_vars

\* an indicator set up with any of the three colour methods
InitMethods == \E method \in Methods : Setup(method)

NextMethods == \E g \in MethodGrids : ReturnIndicator(g)

SpecMethods == InitMethods /\ [][NextMethods]_vars

\* the indicator of src/main.py on grids dense enough for the exposure to
\* pass the ceiling
NextDense == \E g \in DenseGrids : ReturnIndicator(g)

SpecDense == Init /\ [][NextDense]_vars

----------------------------------------------------------------------------
(* Properties *)

\* a pass has run and returned
Completed == geogrid_in # None /\ ~raised

\* the ids of the cells of the last grid whose type is in the given set
IdsOfType(types) ==
    {Val(geogrid_in)[i].id :
        i \in {j \in 1..Len(Val(geogrid_in)) : Val(geogrid_in)[j].name \in types}}

\* C1: for every value h of the output mapping of a pass, with the breaks
\* set_breaks computed from that mapping, the subscript get_color applies to
\* the palette is in 0..n_colors-1; a value equal to the lowest break gets
\* subscript 0, never -1.
C1_BinInRange ==
    (Completed /\ breaks # None) =>
        \A k \in DOMAIN final_height_lookup :
            /\ PaletteSubscript(Val(breaks), final_height_lookup[k]) \in 0..(n_colors - 1)
            /\ (final_height_lookup[k] = Val(breaks)[1] =>
                    PaletteSubscript(Val(breaks), final_height_lookup[k]) = 0)

\* C2: after a pass, every cell that has an entry in the output mapping is
\* reported with a height of at most the output ceiling (1000) and at least
\* base_height.
C2_ReportedHeightBounded ==
    Completed =>
        \A i \in 1..Len(Val(geogrid_data)) :
            Val(geogrid_data)[i].id \in DOMAIN final_height_lookup =>
                /\ Val(geogrid_data)[i].height <= Fix(1000)
                /\ Val(geogrid_data)[i].height >= Fix(base_height)

\* C2 witness: a cell with an output whose exposure reached the ceiling has
\* been reported
C2_Witness ==
    /\ Completed
    /\ \E i \in 1..Len(Val(geogrid_data)) :
          /\ Val(geogrid_data)[i].id \in DOMAIN final_height_lookup
          /\ exposure[Val(geogrid_data)[i].id] = Fix(50)
          /\ Val(geogrid_data)[i].height > Fix(300)

\* C3: the distances a pass uses are the pairwise distances of the grid
\* passed to that pass; a pass on a grid whose cells or coordinates differ
\* from those the cache was built on does not use the stale cache.
C3_CacheFollowsGrid ==
    Completed => Val(dis) = make_dis_df(Val(geogrid_in))

\* C4 as stated: with no private cell on the grid, every academic cell has
\* exposure 0 and output base_height*exp(beta0), whether the output is read
\* in the output mapping or on the cell.
C4_ZeroSendersOutput ==
    (Completed /\ IdsOfType(private_types) = {}) =>
        \A i \in 1..Len(Val(geogrid_data)) :
            Val(geogrid_data)[i].name \in academic_types =>
                \/ /\ Val(geogrid_data)[i].id \in DOMAIN final_height_lookup
                   /\ final_height_lookup[Val(geogrid_data)[i].id]
                        = Final(Fix(base_height), 0)
                \/ Val(geogrid_data)[i].height = Final(Fix(base_height), 0)

\* C4 amended: with no private cell on the grid, no cell has an exposure
\* record, the output mapping is empty, and every academic cell is reported
\* at the default height scale*base_height.
C4_ZeroSendersDefault ==
    (Completed /\ IdsOfType(private_types) = {}) =>
        /\ DOMAIN exposure = {}
        /\ DOMAIN final_height_lookup = {}
        /\ \A i \in 1..Len(Val(geogrid_data)) :
              Val(geogrid_data)[i].name \in academic_types =>
                  Val(geogrid_data)[i].height = scale * Fix(base_height)

\* C4 witness: a pass on a grid with academic cells and no private cell,
\* after a pass that cached distances between several cells
C4_Witness ==
    /\ Completed
    /\ IdsOfType(private_types) = {}
    /\ IdsOfType(academic_types) # {}
    /\ Len(Val(dis)) > 0

\* C5: the keys of the output mapping are exactly the academic cells that
\* have at least one distance row to a private cell; the mapping is empty
\* when there is no private or no academic cell, and the pass does not raise.
C5_KeysAreJoinedReceivers ==
    geogrid_in # None =>
        /\ ~raised
        /\ DOMAIN final_height_lookup =
              {a \in IdsOfType(academic_types) :
                  \E k \in 1..Len(Val(dis)) :
                      /\ Val(dis)[k].id_x = a
                      /\ Val(dis)[k].id_y \in IdsOfType(private_types)}
        /\ (IdsOfType(private_types) = {} \/ IdsOfType(academic_types) = {}) =>
              DOMAIN final_height_lookup = {}

\* C5 witness: a grid with a private cell, an academic cell that is a key
\* and an academic cell that has no distance row and is left out
C5_Witness ==
    /\ Completed
    /\ IdsOfType(private_types) # {}
    /\ DOMAIN final_height_lookup # {}
    /\ IdsOfType(academic_types) \ DOMAIN final_height_lookup # {}

\* C6: when a pass builds the cache, the cache has exactly one row for every
\* ordered pair of distinct cells of the grid (n*(n-1) rows, none for n < 2),
\* no row pairs a cell with itself, and the rows (a,b) and (b,a) carry the
\* same distance.
C6_AllOrderedPairs ==
    [][dis = None =>
        LET rows == Val(dis')
            ids == {Val(geogrid_in')[i].id : i \in 1..Len(Val(geogrid_in'))}
            n == Len(Val(geogrid_in'))
        IN /\ Len(rows) = n * (n - 1)
           /\ (n < 2 => rows = <<>>)
           /\ \A a \in ids : \A b \in ids \ {a} :
                 Cardinality({k \in 1..Len(rows) :
                                 rows[k].id_x = a /\ rows[k].id_y = b}) = 1
           /\ \A k \in 1..Len(rows) : rows[k].id_x # rows[k].id_y
           /\ \A j \in 1..Len(rows) : \A k \in 1..Len(rows) :
                 (rows[j].id_x = rows[k].id_y /\ rows[j].id_y = rows[k].id_x)
                     => rows[j].distance = rows[k].distance]_vars

\* C6 witness: the cache has been built on a grid of three or more cells
\* that are not all at the same distance
C6_Witness ==
    /\ dis # None
    /\ Len(Val(dis)) >= 6
    /\ \E j \in 1..Len(Val(dis)) : \E k \in 1..Len(Val(dis)) :
          Val(dis)[j].distance # Val(dis)[k].distance

\* C7: the exposure of every academic cell that enters the output transform
\* is at most the ceiling (50), and the output is the transform of that
\* clamped exposure.
C7_ExposureClamped ==
    geogrid_in # None =>
        /\ \A x \in DOMAIN exposure : exposure[x] <= Fix(50)
        /\ \A k \in DOMAIN final_height_lookup :
              /\ k \in DOMAIN exposure
              /\ final_height_lookup[k] = Final(Fix(base_height), exposure[k])
              /\ final_height_lookup[k] <= Final(Fix(base_height), Fix(50))

\* C7 witness: the summed exposure of an academic cell exceeded the ceiling
\* and was clamped
C7_Witness ==
    /\ Completed
    /\ \E k \in DOMAIN final_height_lookup :
          /\ GroupSum(MergePatents(Val(dis),
                 SelectSeq(ResetHeights(Val(geogrid_in)),
                           LAMBDA c : c.name \in private_types)))[k] > Fix(50)
          /\ exposure[k] = Fix(50)

C9_BreaksMonotone ==
    (Completed /\ DOMAIN final_height_lookup # {} /\ breaks # None) =>
        LET b == Val(breaks)
        IN /\ \A i \in 1..(Len(b) - 1) : b[i] <= b[i + 1]
           /\ \A k \in DOMAIN final_height_lookup :
                 b[1] <= final_height_lookup[k] /\ final_height_lookup[k] <= b[Len(b)]
           /\ \E k \in DOMAIN final_height_lookup : b[1] = final_height_lookup[k]
           /\ \E k \in DOMAIN final_height_lookup : b[Len(b)] = final_height_lookup[k]

\* C9 witness: jenks breaks over output values that are not all equal
C9_Witness ==
    /\ Completed
    /\ color_method = "jenks"
    /\ breaks # None
    /\ DOMAIN final_height_lookup # {}
    /\ Val(breaks)[1] < Val(breaks)[2]
    /\ Val(breaks)[2] < Val(breaks)[Len(Val(breaks))]

\* C10: the output mapping does not depend on the heights the academic and
\* private cells arrive with: the same grid with any other heights on those
\* cells gives the mapping of the pass.
C10_IncomingHeightsIgnored ==
    Completed =>
        \A hs \in [1..Len(Val(geogrid_in)) -> HeightsIn] :
            propagate_spillovers(Val(dis),
                [i \in 1..Len(Val(geogrid_in)) |->
                    IF Val(geogrid_in)[i].name \in (academic_types \cup private_types)
                    THEN [Val(geogrid_in)[i] EXCEPT !.height = hs[i]]
                    ELSE Val(geogrid_in)[i]])
              = final_height_lookup

\* C10 witness: a pass with a non-empty mapping on a grid whose academic and
\* private cells arrived with a height other than base_height
C10_Witness ==
    /\ Completed
    /\ DOMAIN final_height_lookup # {}
    /\ \A i \in 1..Len(Val(geogrid_in)) :
          Val(geogrid_in)[i].height # Fix(base_height)

====
